---- MODULE Spec2Model ----
(*****************************************************************************)
(* The decision-making tool: the SQLite store of persistence.py, the four    *)
(* repositories of repositories.py, the entities of models.py and the        *)
(* DecisionService of service.py.                                            *)
(*                                                                           *)
(* A table is the sequence of its rows in the order stored, and a list query *)
(* sorts the rows it selects by created_at.  For the Service, created_at is  *)
(* datetime.now() taken when the entity is constructed: datetime.now() is an *)
(* input of the call that reads it, never earlier than a timestamp the store *)
(* holds.  A caller of a repository may store an entity constructed at any   *)
(* earlier time (SpecList).                                                  *)
(*                                                                           *)
(* A Python value (a weight, a score value) is the record of its type and    *)
(* its number; a REAL column holds the number alone, as SQLite converts      *)
(* what it is given to a float.  Numbers are integers here, in a range       *)
(* where float arithmetic is exact (no NaN, no infinity).  A name or a       *)
(* description is the sequence of its characters.  The decisions table       *)
(* keeps its id column only: no statement modelled here reads the others.    *)
(*                                                                           *)
(* Spec is the store under every repository and Service call, with one       *)
(* name, one description and one clock reading.  SpecService is the store    *)
(* under the Service's calls alone, with every kind of argument.  SpecCalc   *)
(* applies calculate_weighted_scores to a wider family of stores, SpecList   *)
(* the list queries.  SpecDatabase is one Database handle under calls and    *)
(* close(), SpecConstruct the construction of Services, SpecDict to_dict     *)
(* and from_dict over the entities.                                          *)
(*****************************************************************************)
EXTENDS Integers, Sequences, FiniteSets, TLC

\* ---- identifiers and field values the operations draw their inputs from
DecisionIds == {"d1", "d2"}
OptionIds   == {"o1", "o2"}
CriteriaIds == {"c1"}
ScoreIds    == {"s1", "s2"}
Weights     == {0, 1}
Values      == {-1, 2}
Notes       == {"", "n"}
\* the store holds at most MaxRows rows, all tables together
MaxRows     == 6

\* ---- Python values
Py(t, v) == [t |-> t, v |-> v]
PyFloat(x) == Py("float", x)
PyInt(x) == Py("int", x)
NoneValue == Py("NoneType", 0)
\* isinstance(x, (int, float)): bool is a subclass of int
IsNumeric(x) == x.t \in {"int", "float", "bool"}
\* isinstance(x, int)
IsInt(x) == x.t \in {"int", "bool"}
\* float(x)
ToFloat(x) == PyFloat(x.v)
\* what a REAL column keeps of a number bound to it
ToReal(x) == x.v

\* ---- str
Whitespace == {" "}
\* an identifier, as text: one character that is not whitespace
Text(s) == IF s = "" THEN <<>> ELSE <<s>>

RECURSIVE lstrip(_)
lstrip(s) == IF s # <<>> /\ Head(s) \in Whitespace THEN lstrip(Tail(s)) ELSE s

RECURSIVE rstrip(_)
rstrip(s) ==
    IF s # <<>> /\ s[Len(s)] \in Whitespace THEN rstrip(SubSeq(s, 1, Len(s) - 1)) ELSE s

strip(s) == rstrip(lstrip(s))
\* not s or not s.strip()
Blank(s) == s = <<>> \/ strip(s) = <<>>

\* the name, the description and the clock reading of the calls of Spec
Name == <<"a">>
Description == <<>>
Clock == {1}

VARIABLES
    decisions,  \* table decisions: rows [id]
    options,    \* table options:   rows [id, decision_id, name, description, created_at, updated_at]
    criteria,   \* table criteria:  the columns of options and weight
    scores,     \* table scores:    rows [id, option_id, criteria_id, value, notes, created_at, updated_at]
    decision,   \* DecisionService.decision: the id of the Service's Decision
    ret,        \* what the last call returned or raised, and the rows it removed
    db          \* the Database handle: _connection, and the connections opened and closed so far

vars == <<decisions, options, criteria, scores, decision, ret, db>>
store == <<decisions, options, criteria, scores>>

\* ---- results of a call
NoValue == <<>>
Returned(op, out) == [op |-> op, out |-> out, value |-> NoValue, removed |-> {}]
Raised(op, err) == [op |-> op, out |-> err, value |-> NoValue, removed |-> {}]

UniqueScoresPair == "IntegrityError: UNIQUE constraint failed: scores.option_id, scores.criteria_id"
UniqueId == "IntegrityError: UNIQUE constraint failed: id"
ForeignKeyFailed == "IntegrityError: FOREIGN KEY constraint failed"

\* ---- rows
Ids(table) == {table[i].id : i \in DOMAIN table}
Rows(table) == {table[i] : i \in DOMAIN table}

\* faulty variant: the connection never enables foreign keys (SQLite's default)
foreign_keys_off == FALSE

\* PRAGMA foreign_keys = ON, set on the one connection of the Database
foreign_keys == TRUE

\* ---- Database (persistence.py): the connection
\* _connection is the set holding the connection, empty when it is None; a
\* connection is named by its rank among the connections the handle opened
\* if self._connection is None: self._connection = sqlite3.connect(self.db_path)
get_connection(d) ==
    IF d.connection = {}
    THEN [d EXCEPT !.connection = {d.opened + 1}, !.opened = d.opened + 1]
    ELSE d

\* if self._connection: self._connection.close(); self._connection = None
close(d) ==
    IF d.connection # {}
    THEN [d EXCEPT !.connection = {}, !.closed = d.closed + 1]
    ELSE d

\* Database.__init__: self._connection = None, then _init_schema(), whose
\* get_cursor() opens the connection
Database_init == get_connection([connection |-> {}, opened |-> 0, closed |-> 0])

Init ==
    /\ db = Database_init
    /\ decisions = <<>>
    /\ options = <<>>
    /\ criteria = <<>>
    /\ scores = <<>>
    /\ decision = "d1"
    /\ ret = Returned("__init__", "ok")

\* ---- the SQLite schema (persistence.py): constraints and cascades
\* INSERT INTO decisions: id TEXT PRIMARY KEY
InsertDecisionError(row) ==
    IF row.id \in Ids(decisions) THEN UniqueId ELSE ""

\* faulty variant: options.decision_id declared without its FOREIGN KEY
InsertChildErrorNoForeignKey(table, row) ==
    IF row.id \in Ids(table) THEN UniqueId ELSE ""

\* INSERT INTO options / criteria: id TEXT PRIMARY KEY, then
\* FOREIGN KEY (decision_id) REFERENCES decisions(id)
InsertChildError(table, row) ==
    IF row.id \in Ids(table) THEN UniqueId
    ELSE IF foreign_keys /\ row.decision_id \notin Ids(decisions) THEN ForeignKeyFailed
    ELSE ""

\* faulty variant: the scores table without UNIQUE(option_id, criteria_id)
InsertScoreErrorNoPair(row) ==
    IF row.id \in Ids(scores) THEN UniqueId
    ELSE IF foreign_keys /\ (row.option_id \notin Ids(options) \/ row.criteria_id \notin Ids(criteria))
    THEN ForeignKeyFailed
    ELSE ""

\* INSERT INTO scores: UNIQUE(option_id, criteria_id), id TEXT PRIMARY KEY, then
\* the two foreign keys (checked when the statement ends)
InsertScoreError(row) ==
    IF \E r \in Rows(scores) : r.option_id = row.option_id /\ r.criteria_id = row.criteria_id
    THEN UniqueScoresPair
    ELSE IF row.id \in Ids(scores) THEN UniqueId
    ELSE IF foreign_keys /\ (row.option_id \notin Ids(options) \/ row.criteria_id \notin Ids(criteria))
    THEN ForeignKeyFailed
    ELSE ""

\* DELETE FROM t WHERE id = ?
DeleteById(table, id) == SelectSeq(table, LAMBDA r : r.id # id)

\* ON DELETE CASCADE of options.decision_id and criteria.decision_id
CascadeDecision(table, gone) ==
    IF foreign_keys THEN SelectSeq(table, LAMBDA r : r.decision_id \notin gone) ELSE table

\* faulty variant: scores.criteria_id declared without ON DELETE CASCADE
CascadeScoresByOption(goneOptions, goneCriteria) ==
    IF foreign_keys
    THEN SelectSeq(scores, LAMBDA r : r.option_id \notin goneOptions)
    ELSE scores

\* ON DELETE CASCADE of scores.option_id and scores.criteria_id
CascadeScores(goneOptions, goneCriteria) ==
    IF foreign_keys
    THEN SelectSeq(scores, LAMBDA r : r.option_id \notin goneOptions /\ r.criteria_id \notin goneCriteria)
    ELSE scores

BoolOut(b) == IF b THEN "True" ELSE "False"

\* faulty variant: delete returns True whether or not a row was removed
DeletedAlwaysTrue(op, own, cascaded) ==
    [op |-> op, out |-> "True", value |-> NoValue, removed |-> own \cup cascaded]

\* a delete: return cursor.rowcount > 0; removed keeps the ids of the rows the
\* statement took out of the store, the cascaded ones included
Deleted(op, own, cascaded) ==
    [op |-> op, out |-> BoolOut(own # {}), value |-> NoValue, removed |-> own \cup cascaded]

\* ---- Database.get_cursor
\* faulty variant: the statement's write stays when the statement fails
get_cursor_no_rollback(err, before, after) == after

\* what the table holds when the with-block is left: commit() after a block that
\* raised nothing, rollback() and the error raised again otherwise
get_cursor(err, before, after) == IF err # "" THEN before ELSE after

\* ---- DecisionRepository
DecisionRepository_create(d) ==
    LET row == [id |-> d]
        err == InsertDecisionError(row)
    IN  /\ decisions' = get_cursor(err, decisions, Append(decisions, row))
        /\ ret' = IF err # "" THEN Raised("DecisionRepository.create", err)
                  ELSE Returned("DecisionRepository.create", "ok")
        /\ UNCHANGED <<options, criteria, scores, decision>>
        /\ db' = get_connection(db)

\* faulty variant: the cascade stops at the Decision's options and criteria
DecisionRepository_delete_one_level(d) ==
    LET gone == {d} \cap Ids(decisions)
    IN  /\ decisions' = DeleteById(decisions, d)
        /\ options' = CascadeDecision(options, gone)
        /\ criteria' = CascadeDecision(criteria, gone)
        /\ ret' = Deleted("DecisionRepository.delete", gone,
                          (Ids(options) \ Ids(options')) \cup (Ids(criteria) \ Ids(criteria')))
        /\ UNCHANGED <<scores, decision>>
        /\ db' = get_connection(db)

DecisionRepository_delete(d) ==
    LET gone == {d} \cap Ids(decisions)
        goneOptions == Ids(options) \ Ids(CascadeDecision(options, gone))
        goneCriteria == Ids(criteria) \ Ids(CascadeDecision(criteria, gone))
    IN  /\ decisions' = DeleteById(decisions, d)
        /\ options' = CascadeDecision(options, gone)
        /\ criteria' = CascadeDecision(criteria, gone)
        /\ scores' = CascadeScores(goneOptions, goneCriteria)
        /\ ret' = Deleted("DecisionRepository.delete", gone,
                          goneOptions \cup goneCriteria \cup (Ids(scores) \ Ids(scores')))
        /\ UNCHANGED decision
        /\ db' = get_connection(db)

\* ---- entities (models.py) and their rows
\* Option.__post_init__: the error it raises, "" for none
Option_post_init(e) ==
    IF Blank(e.name) THEN "ValueError: Option name cannot be empty"
    ELSE IF Blank(Text(e.decision_id)) THEN "ValueError: Option must be associated with a decision"
    ELSE ""

\* Criteria.__post_init__
Criteria_post_init(e) ==
    IF Blank(e.name) THEN "ValueError: Criteria name cannot be empty"
    ELSE IF Blank(Text(e.decision_id)) THEN "ValueError: Criteria must be associated with a decision"
    ELSE IF ~IsNumeric(e.weight) THEN "ValueError: Weight must be a numeric value"
    ELSE IF e.weight.v < 0 THEN "ValueError: Weight cannot be negative"
    ELSE ""

\* Score.__post_init__: the checks
Score_post_init(e) ==
    IF Blank(Text(e.option_id)) THEN "ValueError: Score must be associated with an option"
    ELSE IF Blank(Text(e.criteria_id)) THEN "ValueError: Score must be associated with a criteria"
    ELSE IF ~IsNumeric(e.value) THEN "ValueError: Score value must be a numeric value"
    ELSE ""

\* Score.__post_init__: if isinstance(self.value, int): self.value = float(self.value)
Score_new(e) == [e EXCEPT !.value = IF IsInt(@) THEN ToFloat(@) ELSE @]

\* the parameters an INSERT or UPDATE binds to the REAL column
criteria_row(e) == [e EXCEPT !.weight = ToReal(@)]
score_row(e) == [e EXCEPT !.value = ToReal(@)]
\* Criteria(weight=row['weight'], ...), Score(value=row['value'], ...)
Criteria_from_row(r) == [r EXCEPT !.weight = PyFloat(@)]
Score_from_row(r) == [r EXCEPT !.value = PyFloat(@)]

\* the first error the constructor raised over the rows a query fetched,
\* given each row's error in fetch order
FirstError(errors) ==
    IF \E i \in DOMAIN errors : errors[i] # ""
    THEN errors[CHOOSE i \in DOMAIN errors :
            errors[i] # "" /\ \A j \in 1..(i - 1) : errors[j] = ""]
    ELSE ""

\* ---- OptionRepository
\* INSERT INTO options / criteria inside get_cursor(): the error raised and the
\* table the transaction leaves
ChildInsert(table, row) ==
    LET err == InsertChildError(table, row)
    IN  [err |-> err, table |-> get_cursor(err, table, Append(table, row))]

OptionRepository_create(op, option) ==
    LET done == ChildInsert(options, option)
    IN  /\ options' = done.table
        /\ ret' = IF done.err # "" THEN Raised(op, done.err)
                  ELSE [Returned(op, "ok") EXCEPT !.value = option]
        /\ UNCHANGED <<decisions, criteria, scores, decision>>
        /\ db' = get_connection(db)

\* UPDATE options SET name = ?, description = ?, updated_at = ? WHERE id = ?
UpdateOption(e) ==
    [i \in DOMAIN options |->
        IF options[i].id = e.id
        THEN [options[i] EXCEPT !.name = e.name, !.description = e.description,
                                !.updated_at = e.updated_at]
        ELSE options[i]]

\* option.updated_at = datetime.now(), then the UPDATE
OptionRepository_update(op, option, now) ==
    LET e == [option EXCEPT !.updated_at = now]
    IN  /\ options' = UpdateOption(e)
        /\ ret' = [Returned(op, "ok") EXCEPT !.value = e]
        /\ UNCHANGED <<decisions, criteria, scores, decision>>
        /\ db' = get_connection(db)

OptionRepository_delete(op, id) ==
    LET gone == {id} \cap Ids(options)
    IN  /\ options' = DeleteById(options, id)
        /\ scores' = CascadeScores(gone, {})
        /\ ret' = Deleted(op, gone, Ids(scores) \ Ids(scores'))
        /\ UNCHANGED <<decisions, criteria, decision>>
        /\ db' = get_connection(db)

\* ---- CriteriaRepository
CriteriaRepository_create(op, c) ==
    LET done == ChildInsert(criteria, criteria_row(c))
    IN  /\ criteria' = done.table
        /\ ret' = IF done.err # "" THEN Raised(op, done.err)
                  ELSE [Returned(op, "ok") EXCEPT !.value = c]
        /\ UNCHANGED <<decisions, options, scores, decision>>
        /\ db' = get_connection(db)

\* UPDATE criteria SET name = ?, description = ?, weight = ?, updated_at = ? WHERE id = ?
UpdateCriteria(row) ==
    [i \in DOMAIN criteria |->
        IF criteria[i].id = row.id
        THEN [criteria[i] EXCEPT !.name = row.name, !.description = row.description,
                                 !.weight = row.weight, !.updated_at = row.updated_at]
        ELSE criteria[i]]

\* criteria.updated_at = datetime.now(), then the UPDATE
CriteriaRepository_update(op, c, now) ==
    LET e == [c EXCEPT !.updated_at = now]
    IN  /\ criteria' = UpdateCriteria(criteria_row(e))
        /\ ret' = [Returned(op, "ok") EXCEPT !.value = e]
        /\ UNCHANGED <<decisions, options, scores, decision>>
        /\ db' = get_connection(db)

CriteriaRepository_delete(op, id) ==
    LET gone == {id} \cap Ids(criteria)
    IN  /\ criteria' = DeleteById(criteria, id)
        /\ scores' = CascadeScores({}, gone)
        /\ ret' = Deleted(op, gone, Ids(scores) \ Ids(scores'))
        /\ UNCHANGED <<decisions, options, decision>>
        /\ db' = get_connection(db)

\* faulty variant: INSERT OR REPLACE, the new score takes the place of the pair's score
ScoreInsertOrReplace(row) ==
    [err |-> "",
     scores |-> Append(SelectSeq(scores, LAMBDA r :
                    r.id # row.id /\ ~(r.option_id = row.option_id /\ r.criteria_id = row.criteria_id)),
                    row)]

\* ---- ScoreRepository
\* INSERT INTO scores inside get_cursor(): the error raised ("" for none) and the
\* table the transaction leaves, committed or rolled back
ScoreInsert(row) ==
    LET err == InsertScoreError(row)
    IN  [err |-> err, scores |-> get_cursor(err, scores, Append(scores, row))]

ScoreRepository_create(op, score) ==
    LET done == ScoreInsert(score_row(score))
    IN  /\ scores' = done.scores
        /\ ret' = IF done.err # "" THEN Raised(op, done.err)
                  ELSE [Returned(op, "ok") EXCEPT !.value = score]
        /\ UNCHANGED <<decisions, options, criteria, decision>>
        /\ db' = get_connection(db)

\* UPDATE scores SET value = ?, notes = ?, updated_at = ? WHERE id = ?
UpdateScore(row) ==
    [i \in DOMAIN scores |->
        IF scores[i].id = row.id
        THEN [scores[i] EXCEPT !.value = row.value, !.notes = row.notes,
                               !.updated_at = row.updated_at]
        ELSE scores[i]]

\* score.updated_at = datetime.now(), then the UPDATE
ScoreRepository_update(op, score, now) ==
    LET e == [score EXCEPT !.updated_at = now]
    IN  /\ scores' = UpdateScore(score_row(e))
        /\ ret' = [Returned(op, "ok") EXCEPT !.value = e]
        /\ UNCHANGED <<decisions, options, criteria, decision>>
        /\ db' = get_connection(db)

ScoreRepository_delete(op, id) ==
    /\ scores' = DeleteById(scores, id)
    /\ ret' = Deleted(op, {id} \cap Ids(scores), {})
    /\ UNCHANGED <<decisions, options, criteria, decision>>
    /\ db' = get_connection(db)

\* ---- reads
\* SELECT ... WHERE id = ?, fetchone(): the row, or None (the empty set)
get_by_id(table, id) == {r \in Rows(table) : r.id = id}

\* faulty variant: the statement without its ORDER BY, the rows in the order stored
rowid_order(rows) == rows

\* ORDER BY created_at ASC over the rows a statement selects, taken in the order
\* stored: rows of one created_at come out in that order
RECURSIVE ORDER_BY_created_at_ASC(_)
ORDER_BY_created_at_ASC(rows) ==
    IF rows = <<>> THEN <<>>
    ELSE LET n == Len(rows)
             sorted == ORDER_BY_created_at_ASC(SubSeq(rows, 1, n - 1))
             k == Cardinality({i \in DOMAIN sorted : sorted[i].created_at <= rows[n].created_at})
         IN  SubSeq(sorted, 1, k) \o <<rows[n]>> \o SubSeq(sorted, k + 1, Len(sorted))

\* ORDER BY created_at DESC
RECURSIVE ORDER_BY_created_at_DESC(_)
ORDER_BY_created_at_DESC(rows) ==
    IF rows = <<>> THEN <<>>
    ELSE LET n == Len(rows)
             sorted == ORDER_BY_created_at_DESC(SubSeq(rows, 1, n - 1))
             k == Cardinality({i \in DOMAIN sorted : sorted[i].created_at >= rows[n].created_at})
         IN  SubSeq(sorted, 1, k) \o <<rows[n]>> \o SubSeq(sorted, k + 1, Len(sorted))

\* faulty variant: the listing without its WHERE decision_id = ?
get_all_of_any_decision(table, d) == ORDER_BY_created_at_ASC(table)

\* SELECT ... FROM options / criteria WHERE decision_id = ? ORDER BY created_at ASC
get_by_decision_id(table, d) ==
    ORDER_BY_created_at_ASC(SelectSeq(table, LAMBDA r : r.decision_id = d))

\* SELECT ... FROM scores WHERE option_id = ? ORDER BY created_at ASC
get_by_option_id(table, o) ==
    ORDER_BY_created_at_ASC(SelectSeq(table, LAMBDA r : r.option_id = o))

\* SELECT ... FROM scores WHERE criteria_id = ? ORDER BY created_at ASC
get_by_criteria_id(table, c) ==
    ORDER_BY_created_at_ASC(SelectSeq(table, LAMBDA r : r.criteria_id = c))

\* SELECT ... FROM options / criteria / scores ORDER BY created_at DESC
get_all(table) == ORDER_BY_created_at_DESC(table)

\* return [Option(...) for row in rows] and the like: the entities of the rows
\* fetched, or the error of the first row its constructor turns down
Fetched(op, entities, errors) ==
    /\ ret' = IF FirstError(errors) # "" THEN Raised(op, FirstError(errors))
              ELSE [Returned(op, "ok") EXCEPT !.value = entities]
    /\ UNCHANGED <<store, decision>>
    /\ db' = get_connection(db)

OptionRepository_get_by_decision_id(d) ==
    LET rows == get_by_decision_id(options, d)
    IN  Fetched("OptionRepository.get_by_decision_id", rows,
                [i \in DOMAIN rows |-> Option_post_init(rows[i])])

OptionRepository_get_all ==
    LET rows == get_all(options)
    IN  Fetched("OptionRepository.get_all", rows,
                [i \in DOMAIN rows |-> Option_post_init(rows[i])])

CriteriaRepository_get_by_decision_id(d) ==
    LET es == [i \in DOMAIN get_by_decision_id(criteria, d) |->
                  Criteria_from_row(get_by_decision_id(criteria, d)[i])]
    IN  Fetched("CriteriaRepository.get_by_decision_id", es,
                [i \in DOMAIN es |-> Criteria_post_init(es[i])])

CriteriaRepository_get_all ==
    LET es == [i \in DOMAIN criteria |-> Criteria_from_row(get_all(criteria)[i])]
    IN  Fetched("CriteriaRepository.get_all", es,
                [i \in DOMAIN es |-> Criteria_post_init(es[i])])

ScoreRepository_get_by_option_id(o) ==
    LET es == [i \in DOMAIN get_by_option_id(scores, o) |->
                  Score_from_row(get_by_option_id(scores, o)[i])]
    IN  Fetched("ScoreRepository.get_by_option_id", es,
                [i \in DOMAIN es |-> Score_post_init(es[i])])

ScoreRepository_get_by_criteria_id(c) ==
    LET es == [i \in DOMAIN get_by_criteria_id(scores, c) |->
                  Score_from_row(get_by_criteria_id(scores, c)[i])]
    IN  Fetched("ScoreRepository.get_by_criteria_id", es,
                [i \in DOMAIN es |-> Score_post_init(es[i])])

ScoreRepository_get_all ==
    LET es == [i \in DOMAIN scores |-> Score_from_row(get_all(scores)[i])]
    IN  Fetched("ScoreRepository.get_all", es,
                [i \in DOMAIN es |-> Score_post_init(es[i])])

\* ---- Python dict, as the sequence of its items in insertion order
DictSet(d, k, v) ==
    IF \E i \in DOMAIN d : d[i].key = k
    THEN [i \in DOMAIN d |-> IF d[i].key = k THEN [key |-> k, val |-> v] ELSE d[i]]
    ELSE Append(d, [key |-> k, val |-> v])

RECURSIVE DictFrom(_)
DictFrom(items) ==
    IF items = <<>> THEN <<>>
    ELSE LET n == Len(items)
         IN  DictSet(DictFrom(SubSeq(items, 1, n - 1)), items[n].key, items[n].val)

\* faulty variant: a key that is missing counts as 1
DictGetOne(d, k, default) ==
    IF \E i \in DOMAIN d : d[i].key = k
    THEN d[CHOOSE i \in DOMAIN d : d[i].key = k].val
    ELSE 1

\* d.get(k, default)
DictGet(d, k, default) ==
    IF \E i \in DOMAIN d : d[i].key = k
    THEN d[CHOOSE i \in DOMAIN d : d[i].key = k].val
    ELSE default

\* ---- DecisionService.calculate_weighted_scores
\* {c.id: c.weight for c in criteria}
criteria_weights(cs) ==
    DictFrom([i \in DOMAIN cs |-> [key |-> cs[i].id, val |-> cs[i].weight]])

\* {s.criteria_id: s.value for s in scores}
score_values(ss) ==
    DictFrom([i \in DOMAIN ss |-> [key |-> ss[i].criteria_id, val |-> ss[i].value]])

\* faulty variant: the weighted average, the sum divided by the total weight
RECURSIVE weighted_total(_, _)
weighted_total(cw, sv) ==
    IF cw = <<>> THEN 0
    ELSE LET n == Len(cw)
         IN  weighted_total(SubSeq(cw, 1, n - 1), sv) + DictGet(sv, cw[n].key, 0) * cw[n].val

RECURSIVE total_weight(_)
total_weight(cw) ==
    IF cw = <<>> THEN 0 ELSE total_weight(SubSeq(cw, 1, Len(cw) - 1)) + cw[Len(cw)].val

weighted_average(cw, sv) ==
    IF total_weight(cw) = 0 THEN 0 ELSE weighted_total(cw, sv) \div total_weight(cw)

\* faulty variant: the loop runs over the option's scores, and a score whose
\* criteria has no weight among the Decision's counts with weight 1
RECURSIVE weighted_score_over_scores(_, _)
weighted_score_over_scores(cw, sv) ==
    IF sv = <<>> THEN 0
    ELSE LET n == Len(sv)
         IN  weighted_score_over_scores(cw, SubSeq(sv, 1, n - 1))
                + sv[n].val * DictGet(cw, sv[n].key, 1)

\* for criteria_id, weight in criteria_weights.items():
\*     weighted_score += score_values.get(criteria_id, 0.0) * weight
RECURSIVE weighted_score(_, _)
weighted_score(cw, sv) ==
    IF cw = <<>> THEN 0
    ELSE LET n == Len(cw)
         IN  weighted_score(SubSeq(cw, 1, n - 1), sv) + DictGet(sv, cw[n].key, 0) * cw[n].val

\* faulty variant: the sort without reverse=True
InsertAscending(sorted, x) ==
    LET n == Cardinality({i \in DOMAIN sorted : sorted[i].weighted_score <= x.weighted_score})
    IN  SubSeq(sorted, 1, n) \o <<x>> \o SubSeq(sorted, n + 1, Len(sorted))

\* faulty variant: sorted ascending and then reversed, entries of equal key end
\* in the reverse of their original order
InsertDescendingTiesReversed(sorted, x) ==
    LET n == Cardinality({i \in DOMAIN sorted : sorted[i].weighted_score > x.weighted_score})
    IN  SubSeq(sorted, 1, n) \o <<x>> \o SubSeq(sorted, n + 1, Len(sorted))

\* results.sort(key=lambda x: x['weighted_score'], reverse=True): a stable sort,
\* entries of equal key stay in their original order
InsertDescending(sorted, x) ==
    LET n == Cardinality({i \in DOMAIN sorted : sorted[i].weighted_score >= x.weighted_score})
    IN  SubSeq(sorted, 1, n) \o <<x>> \o SubSeq(sorted, n + 1, Len(sorted))

RECURSIVE SortDescending(_)
SortDescending(results) ==
    IF results = <<>> THEN <<>>
    ELSE LET n == Len(results)
         IN  InsertDescending(SortDescending(SubSeq(results, 1, n - 1)), results[n])

\* the entry of one option in the loop over options
OptionResult(option, cw, scs) ==
    [option |-> option,
     weighted_score |->
        IF cw = <<>> THEN 0
        ELSE weighted_score(cw, score_values(get_by_option_id(scs, option.id)))]

\* faulty variant: the weights of every stored criteria, not only the Decision's
WeightedScoresAllCriteria(d, opts, crits, scs) ==
    LET os == get_by_decision_id(opts, d)
        cw == criteria_weights(crits)
    IN  IF os = <<>> THEN <<>>
        ELSE SortDescending([i \in DOMAIN os |-> OptionResult(os[i], cw, scs)])

\* faulty variant: an option that has no score gets no entry
WeightedScoresScoredOnly(d, opts, crits, scs) ==
    LET os == SelectSeq(get_by_decision_id(opts, d),
                        LAMBDA o : get_by_option_id(scs, o.id) # <<>>)
        cw == criteria_weights(get_by_decision_id(crits, d))
    IN  IF os = <<>> THEN <<>>
        ELSE SortDescending([i \in DOMAIN os |-> OptionResult(os[i], cw, scs)])

\* the list calculate_weighted_scores returns for the Decision d on the given tables
WeightedScores(d, opts, crits, scs) ==
    LET os == get_by_decision_id(opts, d)
        cw == criteria_weights(get_by_decision_id(crits, d))
    IN  IF os = <<>> THEN <<>>
        ELSE SortDescending([i \in DOMAIN os |-> OptionResult(os[i], cw, scs)])

\* get_all_options() and get_all_criteria() build an entity of every row they
\* fetch, and a row no constructor accepts makes the call raise; no options
\* returns [] before the criteria are read
calculate_weighted_scores ==
    LET os == get_by_decision_id(options, decision)
        cs == get_by_decision_id(criteria, decision)
        option_error == FirstError([i \in DOMAIN os |-> Option_post_init(os[i])])
        err == IF option_error # "" THEN option_error
               ELSE IF os = <<>> THEN ""
               ELSE FirstError([i \in DOMAIN cs |-> Criteria_post_init(Criteria_from_row(cs[i]))])
    IN  /\ ret' = IF err # "" THEN Raised("calculate_weighted_scores", err)
                  ELSE [Returned("calculate_weighted_scores", "ok") EXCEPT
                           !.value = WeightedScores(decision, options, criteria, scores)]
        /\ UNCHANGED <<store, decision>>
        /\ db' = get_connection(db)

\* ---- DecisionService: options
\* faulty variant: create_option catches what the repository raises and raises a
\* ValueError of its own
create_option_translates(id, name, description, now) ==
    LET option == [id |-> id, decision_id |-> decision, name |-> name,
                   description |-> description, created_at |-> now, updated_at |-> now]
        done == ChildInsert(options, option)
    IN  /\ options' = done.table
        /\ ret' = IF done.err # "" THEN Raised("create_option", "ValueError: could not create option")
                  ELSE [Returned("create_option", "ok") EXCEPT !.value = option]
        /\ UNCHANGED <<decisions, criteria, scores, decision>>
        /\ db' = get_connection(db)

\* Option(decision_id=self.decision.id, ...): the id is a new uuid4, created_at
\* and updated_at are datetime.now()
create_option(id, name, description, now) ==
    LET option == [id |-> id, decision_id |-> decision, name |-> name,
                   description |-> description, created_at |-> now, updated_at |-> now]
    IN  IF Blank(name)
        THEN ret' = Raised("create_option", "ValueError: Option name cannot be empty")
             /\ UNCHANGED <<store, decision, db>>
        ELSE IF Option_post_init(option) # ""
        THEN ret' = Raised("create_option", Option_post_init(option))
             /\ UNCHANGED <<store, decision, db>>
        ELSE OptionRepository_create("create_option", option)

NotFound == "ValueError: not found"

\* faulty variant: the update goes to the repository without the look-up
update_option_no_lookup(id, name, description, now) ==
    OptionRepository_update("update_option",
        [id |-> id, decision_id |-> decision,
         name |-> IF name = {} THEN Name ELSE CHOOSE x \in name : TRUE,
         description |-> IF description = {} THEN Description ELSE CHOOSE x \in description : TRUE,
         created_at |-> now, updated_at |-> now], now)

\* name, description: the set holding the argument supplied, empty when it is None
update_option(id, name, description, now) ==
    LET found == get_by_id(options, id)
    IN  IF found = {}
        THEN /\ ret' = Raised("update_option", NotFound)
             /\ UNCHANGED <<store, decision>> /\ db' = get_connection(db)
        ELSE \E row \in found :
            IF Option_post_init(row) # ""
            THEN ret' = Raised("update_option", Option_post_init(row))
                 /\ UNCHANGED <<store, decision>> /\ db' = get_connection(db)
            ELSE OptionRepository_update("update_option",
                    [row EXCEPT !.name = IF name = {} THEN @ ELSE CHOOSE x \in name : TRUE,
                                !.description = IF description = {} THEN @
                                                ELSE CHOOSE x \in description : TRUE],
                    now)

delete_option(id) == OptionRepository_delete("delete_option", id)

\* ---- DecisionService: criteria
\* weight < 0 on a value that is no number
LessThanZeroError(x) ==
    IF IsNumeric(x) THEN "" ELSE "TypeError: '<' not supported"

create_criteria(id, name, description, weight, now) ==
    LET c == [id |-> id, decision_id |-> decision, name |-> name, description |-> description,
              weight |-> weight, created_at |-> now, updated_at |-> now]
    IN  IF Blank(name)
        THEN ret' = Raised("create_criteria", "ValueError: Criteria name cannot be empty")
             /\ UNCHANGED <<store, decision, db>>
        ELSE IF LessThanZeroError(weight) # ""
        THEN ret' = Raised("create_criteria", LessThanZeroError(weight))
             /\ UNCHANGED <<store, decision, db>>
        ELSE IF weight.v < 0
        THEN ret' = Raised("create_criteria", "ValueError: Weight cannot be negative")
             /\ UNCHANGED <<store, decision, db>>
        ELSE IF Criteria_post_init(c) # ""
        THEN ret' = Raised("create_criteria", Criteria_post_init(c))
             /\ UNCHANGED <<store, decision, db>>
        ELSE CriteriaRepository_create("create_criteria", c)

\* faulty variant: a description that is not supplied is stored as the default
update_criteria_fields_default(c, name, description, weight) ==
    [c EXCEPT !.name = IF name = {} THEN @ ELSE CHOOSE x \in name : TRUE,
              !.description = IF description = {} THEN Description
                              ELSE CHOOSE x \in description : TRUE,
              !.weight = IF weight = {} THEN @ ELSE CHOOSE x \in weight : TRUE]

\* if name is not None: criteria.name = name, and so for description and weight
update_criteria_fields(c, name, description, weight) ==
    [c EXCEPT !.name = IF name = {} THEN @ ELSE CHOOSE x \in name : TRUE,
              !.description = IF description = {} THEN @ ELSE CHOOSE x \in description : TRUE,
              !.weight = IF weight = {} THEN @ ELSE CHOOSE x \in weight : TRUE]

\* name, description, weight: the set holding the argument supplied, empty when it
\* is None
update_criteria(id, name, description, weight, now) ==
    LET found == get_by_id(criteria, id)
    IN  IF found = {}
        THEN /\ ret' = Raised("update_criteria", NotFound)
             /\ UNCHANGED <<store, decision>> /\ db' = get_connection(db)
        ELSE \E row \in found :
            IF Criteria_post_init(Criteria_from_row(row)) # ""
            THEN ret' = Raised("update_criteria", Criteria_post_init(Criteria_from_row(row)))
                 /\ UNCHANGED <<store, decision>> /\ db' = get_connection(db)
            ELSE CriteriaRepository_update("update_criteria",
                    update_criteria_fields(Criteria_from_row(row), name, description, weight),
                    now)

delete_criteria(id) == CriteriaRepository_delete("delete_criteria", id)

\* ---- DecisionService: scores
\* faulty variant: create_score turns down an option or a criteria that is not the
\* Service's Decision's
create_score_own_decision(id, option_id, criteria_id, value, notes, now) ==
    IF \/ \E o \in Rows(options) : o.id = option_id /\ o.decision_id # decision
       \/ \E c \in Rows(criteria) : c.id = criteria_id /\ c.decision_id # decision
    THEN ret' = Raised("create_score", "ValueError: not of this decision")
         /\ UNCHANGED <<store, decision, db>>
    ELSE ScoreRepository_create("create_score",
            [id |-> id, option_id |-> option_id, criteria_id |-> criteria_id,
             value |-> ToFloat(value), notes |-> notes, created_at |-> now, updated_at |-> now])

\* Score(..., value=float(value), ...): the id is a new uuid4
create_score(id, option_id, criteria_id, value, notes, now) ==
    LET score == [id |-> id, option_id |-> option_id, criteria_id |-> criteria_id,
                  value |-> ToFloat(value), notes |-> notes,
                  created_at |-> now, updated_at |-> now]
    IN  IF Blank(Text(option_id))
        THEN ret' = Raised("create_score", "ValueError: Option ID cannot be empty")
             /\ UNCHANGED <<store, decision, db>>
        ELSE IF Blank(Text(criteria_id))
        THEN ret' = Raised("create_score", "ValueError: Criteria ID cannot be empty")
             /\ UNCHANGED <<store, decision, db>>
        ELSE IF ~IsNumeric(value)
        THEN ret' = Raised("create_score", "ValueError: Score value must be numeric")
             /\ UNCHANGED <<store, decision, db>>
        ELSE IF Score_post_init(score) # ""
        THEN ret' = Raised("create_score", Score_post_init(score))
             /\ UNCHANGED <<store, decision, db>>
        ELSE ScoreRepository_create("create_score", Score_new(score))

\* value, notes: the set holding the argument supplied, empty when it is None
update_score(id, value, notes, now) ==
    LET found == get_by_id(scores, id)
    IN  IF found = {}
        THEN /\ ret' = Raised("update_score", NotFound)
             /\ UNCHANGED <<store, decision>> /\ db' = get_connection(db)
        ELSE \E row \in found :
            IF Score_post_init(Score_from_row(row)) # ""
            THEN ret' = Raised("update_score", Score_post_init(Score_from_row(row)))
                 /\ UNCHANGED <<store, decision>> /\ db' = get_connection(db)
            ELSE ScoreRepository_update("update_score",
                    [Score_from_row(row) EXCEPT
                        !.value = IF value = {} THEN @ ELSE CHOOSE v \in value : TRUE,
                        !.notes = IF notes = {} THEN @ ELSE CHOOSE n \in notes : TRUE],
                    now)

delete_score(id) == ScoreRepository_delete("delete_score", id)

\* ---- the arguments callers supply
Optional(S) == {{}} \cup {{x} : x \in S}
NewId(S, table) == S \ Ids(table)
RowCount == Len(decisions) + Len(options) + Len(criteria) + Len(scores)
\* a call is explored when the store it leaves fits the bound
Bounded == RowCount <= MaxRows
\* datetime.now(): a reading of the clock no earlier than the timestamps stored
Stamps ==
    UNION {{r.created_at, r.updated_at} : r \in Rows(options) \cup Rows(criteria) \cup Rows(scores)}
ClockReads(clock) == {t \in clock : \A u \in Stamps : u <= t}

\* the arguments of the calls of Spec
SpecArgs ==
    [option_ids |-> OptionIds, criteria_ids |-> CriteriaIds, score_ids |-> ScoreIds,
     blank_ids |-> {},
     names |-> {Name}, new_names |-> {Name},
     descriptions |-> {Description}, new_descriptions |-> {Description},
     weights |-> {PyFloat(w) : w \in Weights}, new_weights |-> {PyFloat(w) : w \in Weights},
     values |-> {PyFloat(v) : v \in Values}, new_values |-> {PyFloat(2)},
     notes |-> {""}, new_notes |-> {"n"},
     clock |-> Clock]

\* the calls of the Service, their arguments drawn from a
ServiceCalls(a) ==
    \/ \E id \in NewId(a.option_ids, options), n \in a.names, d \in a.descriptions,
          now \in ClockReads(a.clock) : create_option(id, n, d, now) /\ Bounded'
    \/ \E id \in a.option_ids, n \in Optional(a.new_names), d \in Optional(a.new_descriptions),
          now \in ClockReads(a.clock) : update_option(id, n, d, now)
    \/ \E id \in a.option_ids : delete_option(id)
    \/ \E id \in NewId(a.criteria_ids, criteria), n \in a.names, d \in a.descriptions,
          w \in a.weights, now \in ClockReads(a.clock) :
          create_criteria(id, n, d, w, now) /\ Bounded'
    \/ \E id \in a.criteria_ids, n \in Optional(a.new_names), d \in Optional(a.new_descriptions),
          w \in Optional(a.new_weights), now \in ClockReads(a.clock) :
          update_criteria(id, n, d, w, now)
    \/ \E id \in a.criteria_ids : delete_criteria(id)
    \/ \E id \in NewId(a.score_ids, scores), o \in a.option_ids \cup a.blank_ids,
          c \in a.criteria_ids \cup a.blank_ids, v \in a.values, n \in a.notes,
          now \in ClockReads(a.clock) : create_score(id, o, c, v, n, now) /\ Bounded'
    \/ \E id \in a.score_ids, v \in Optional(a.new_values), n \in Optional(a.new_notes),
          now \in ClockReads(a.clock) : update_score(id, v, n, now)
    \/ \E id \in a.score_ids : delete_score(id)
    \/ calculate_weighted_scores

ServiceNext == ServiceCalls(SpecArgs)

\* the entities repository callers construct
NewOption(id, d, now) ==
    [id |-> id, decision_id |-> d, name |-> Name, description |-> Description,
     created_at |-> now, updated_at |-> now]
NewCriteria(id, d, w, now) ==
    [id |-> id, decision_id |-> d, name |-> Name, description |-> Description,
     weight |-> PyFloat(w), created_at |-> now, updated_at |-> now]
NewScore(id, o, c, v, n, now) ==
    [id |-> id, option_id |-> o, criteria_id |-> c, value |-> PyFloat(v), notes |-> n,
     created_at |-> now, updated_at |-> now]

\* the repositories called directly: the creates, for either Decision and any id.
\* Their updates and deletes are the ones the Service's calls above pass through.
RepositoryNext ==
    \/ \E d \in DecisionIds : DecisionRepository_create(d) /\ Bounded'
    \/ \E d \in DecisionIds : DecisionRepository_delete(d)
    \/ \E id \in OptionIds, d \in DecisionIds, now \in ClockReads(Clock) :
          /\ OptionRepository_create("OptionRepository.create", NewOption(id, d, now))
          /\ Bounded'
    \/ \E id \in CriteriaIds, d \in DecisionIds, w \in Weights, now \in ClockReads(Clock) :
          /\ CriteriaRepository_create("CriteriaRepository.create", NewCriteria(id, d, w, now))
          /\ Bounded'
    \/ \E id \in ScoreIds, o \in OptionIds, c \in CriteriaIds, v \in Values,
          now \in ClockReads(Clock) :
          /\ ScoreRepository_create("ScoreRepository.create", NewScore(id, o, c, v, "", now))
          /\ Bounded'

Next == ServiceNext \/ RepositoryNext

Spec == Init /\ [][Next]_vars

\* ---- the Service alone, constructed for a stored Decision, under arguments of
\* every kind: names that are empty or blank, weights and values of each type
ServiceNames == {<<>>, <<" ">>, <<"a">>}
ServiceNewNames == {<<>>, <<"b">>}
ServiceWeights ==
    {PyInt(2), PyInt(-1), Py("bool", 1), Py("str", 0), Py("list", 0), NoneValue}
\* the arguments of an update are numbers
ServiceNewWeights == {PyInt(2), PyInt(-1)}
ServiceValues == {PyInt(2), PyFloat(-1), Py("bool", 1), Py("str", 0), Py("list", 0), NoneValue}
ServiceNewValues == {PyInt(2)}
ServiceClock == {1, 2}

ServiceArgs ==
    [option_ids |-> {"o1"}, criteria_ids |-> {"c1"}, score_ids |-> {"s1"},
     blank_ids |-> {"", " "},
     names |-> ServiceNames, new_names |-> ServiceNewNames,
     descriptions |-> {Description}, new_descriptions |-> {<<"x">>},
     weights |-> ServiceWeights, new_weights |-> ServiceNewWeights,
     values |-> ServiceValues, new_values |-> ServiceNewValues,
     notes |-> {""}, new_notes |-> {"n"},
     clock |-> ServiceClock]

InitService ==
    /\ db = Database_init
    /\ decisions = <<[id |-> "d1"]>>
    /\ options = <<>>
    /\ criteria = <<>>
    /\ scores = <<>>
    /\ decision = "d1"
    /\ ret = Returned("__init__", "ok")

NextService == ServiceCalls(ServiceArgs)

SpecService == InitService /\ [][NextService]_vars

\* ---- one Database handle under operations and close calls: the repository of
\* the decisions table and the Service's option calls, with close() and the
\* with-statement's __exit__ at any point.  The database is a file: what was
\* committed is there for the next connection.
MaxConnections == 3
ConnectionsBounded == db.opened <= MaxConnections

Database_close ==
    /\ db' = close(db)
    /\ ret' = Returned("Database.close", "ok")
    /\ UNCHANGED <<store, decision>>

\* __exit__: self.close()
Database_exit ==
    /\ db' = close(db)
    /\ ret' = Returned("Database.__exit__", "ok")
    /\ UNCHANGED <<store, decision>>

NextDatabase ==
    \/ \E d \in DecisionIds : DecisionRepository_create(d) /\ ConnectionsBounded'
    \/ \E d \in DecisionIds : DecisionRepository_delete(d) /\ ConnectionsBounded'
    \/ \E id \in NewId(OptionIds, options), now \in ClockReads(Clock) :
          create_option(id, Name, Description, now) /\ ConnectionsBounded'
    \/ \E id \in OptionIds : delete_option(id) /\ ConnectionsBounded'
    \/ Database_close
    \/ Database_exit

SpecDatabase == Init /\ [][NextDatabase]_vars

\* ---- DecisionService.__init__ and the program that constructs Services
\* decision, database: the set holding the argument, empty for decision=None and
\* for a call that passes no database keyword; a Decision is named by its id
UnexpectedKeyword ==
    "TypeError: DecisionService.__init__() got an unexpected keyword argument 'database'"
DecisionIsNone == "ValueError: Decision cannot be None"

\* faulty variant: __init__ without its check of the Decision
DecisionService_init_unchecked(d, database, option_repository, criteria_repository, score_repository) ==
    /\ ret' = [Returned("DecisionService.__init__", "ok") EXCEPT
                  !.value = [decision |-> d, option_repository |-> option_repository,
                             criteria_repository |-> criteria_repository,
                             score_repository |-> score_repository]]
    /\ decision' = IF d = {} THEN "" ELSE CHOOSE x \in d : TRUE
    /\ UNCHANGED <<store, db>>

\* the call binds its keywords to the parameters (decision, option_repository,
\* criteria_repository, score_repository) before the body runs; the Service
\* constructed is the one the calls that follow are made on
DecisionService_init(d, database, option_repository, criteria_repository, score_repository) ==
    IF database # {}
    THEN ret' = Raised("DecisionService.__init__", UnexpectedKeyword)
         /\ UNCHANGED <<store, decision, db>>
    ELSE IF d = {}
    THEN ret' = Raised("DecisionService.__init__", DecisionIsNone)
         /\ UNCHANGED <<store, decision, db>>
    ELSE /\ ret' = [Returned("DecisionService.__init__", "ok") EXCEPT
                       !.value = [decision |-> d, option_repository |-> option_repository,
                                  criteria_repository |-> criteria_repository,
                                  score_repository |-> score_repository]]
         /\ decision' = CHOOSE x \in d : TRUE
         /\ UNCHANGED <<store, db>>

\* the objects a caller injects: the repository of the Database, or another object
Databases == {"Database"}
OptionRepositories == {"OptionRepository", "Mock"}
CriteriaRepositories == {"CriteriaRepository", "Mock"}
ScoreRepositories == {"ScoreRepository", "Mock"}

NextConstruct ==
    \/ \E d \in Optional(DecisionIds), database \in Optional(Databases),
          o \in OptionRepositories, c \in CriteriaRepositories, s \in ScoreRepositories :
          DecisionService_init(d, database, o, c, s)
    \/ \E d \in DecisionIds : DecisionRepository_create(d) /\ Bounded'
    \/ \E id \in NewId(OptionIds, options), now \in ClockReads(Clock) :
          create_option(id, Name, Description, now) /\ Bounded'
    \/ \E id \in OptionIds : delete_option(id)

SpecConstruct == Init /\ [][NextConstruct]_vars

\* ---- the list queries on every store of a bounded family: two options and two
\* criteria, each of either Decision, and two scores of different pairs, stored
\* in this order from entities constructed at any reading of the clock (an entity
\* constructed first may be stored last)
ListClock == {1, 2}
ListOptions == <<"o1", "o2">>
ListCriteria == <<"c1", "c2">>
ListScores == <<"s1", "s2">>
ListPairs == {<<ListOptions[i], ListCriteria[j]>> : i \in 1..2, j \in 1..2}

InitList ==
    \E od \in [1..2 -> DecisionIds], cd \in [1..2 -> DecisionIds],
       ot \in [1..2 -> ListClock], ct \in [1..2 -> ListClock], st \in [1..2 -> ListClock],
       sp \in {f \in [1..2 -> ListPairs] : f[1] # f[2]} :
        /\ db = Database_init
        /\ decisions = <<[id |-> "d1"], [id |-> "d2"]>>
        /\ options = [i \in 1..2 |-> NewOption(ListOptions[i], od[i], ot[i])]
        /\ criteria = [i \in 1..2 |-> criteria_row(NewCriteria(ListCriteria[i], cd[i], 1, ct[i]))]
        /\ scores = [i \in 1..2 |->
                         score_row(NewScore(ListScores[i], sp[i][1], sp[i][2], 2, "", st[i]))]
        /\ decision = "d1"
        /\ ret = Returned("__init__", "ok")

NextList ==
    \/ \E d \in DecisionIds : OptionRepository_get_by_decision_id(d)
    \/ OptionRepository_get_all
    \/ \E d \in DecisionIds : CriteriaRepository_get_by_decision_id(d)
    \/ CriteriaRepository_get_all
    \/ \E o \in OptionIds : ScoreRepository_get_by_option_id(o)
    \/ \E c \in Ids(criteria) : ScoreRepository_get_by_criteria_id(c)
    \/ ScoreRepository_get_all

SpecList == InitList /\ [][NextList]_vars

\* ---- to_dict and from_dict (models.py)
\* a datetime is its second and its microsecond; the text of isoformat() is the
\* sequence of the fields it writes
\* faulty variant: isoformat(timespec='seconds')
isoformat_seconds(t) == <<t.second>>

\* datetime.isoformat(): the microsecond is written when it is not 0
isoformat(t) == IF t.microsecond = 0 THEN <<t.second>> ELSE <<t.second, t.microsecond>>

\* datetime.fromisoformat(): a text without a fraction has microsecond 0
fromisoformat(x) == [second |-> x[1], microsecond |-> IF Len(x) > 1 THEN x[2] ELSE 0]

Item(k, v) == [key |-> k, val |-> v]
\* data[k]
DictItem(d, k) == d[CHOOSE i \in DOMAIN d : d[i].key = k].val

\* Decision.__post_init__
Decision_post_init(e) ==
    IF Blank(e.name) THEN "ValueError: Decision name cannot be empty" ELSE ""

Decision_to_dict(e) ==
    DictFrom(<<Item("id", e.id), Item("name", e.name), Item("description", e.description),
               Item("created_at", isoformat(e.created_at)),
               Item("updated_at", isoformat(e.updated_at))>>)

Decision_from_dict(data) ==
    [id |-> DictItem(data, "id"), name |-> DictItem(data, "name"),
     description |-> DictGet(data, "description", <<>>),
     created_at |-> fromisoformat(DictItem(data, "created_at")),
     updated_at |-> fromisoformat(DictItem(data, "updated_at"))]

Option_to_dict(e) ==
    DictFrom(<<Item("id", e.id), Item("decision_id", e.decision_id), Item("name", e.name),
               Item("description", e.description),
               Item("created_at", isoformat(e.created_at)),
               Item("updated_at", isoformat(e.updated_at))>>)

Option_from_dict(data) ==
    [id |-> DictItem(data, "id"), decision_id |-> DictItem(data, "decision_id"),
     name |-> DictItem(data, "name"), description |-> DictGet(data, "description", <<>>),
     created_at |-> fromisoformat(DictItem(data, "created_at")),
     updated_at |-> fromisoformat(DictItem(data, "updated_at"))]

Criteria_to_dict(e) ==
    DictFrom(<<Item("id", e.id), Item("decision_id", e.decision_id), Item("name", e.name),
               Item("description", e.description), Item("weight", e.weight),
               Item("created_at", isoformat(e.created_at)),
               Item("updated_at", isoformat(e.updated_at))>>)

Criteria_from_dict(data) ==
    [id |-> DictItem(data, "id"), decision_id |-> DictItem(data, "decision_id"),
     name |-> DictItem(data, "name"), description |-> DictGet(data, "description", <<>>),
     weight |-> DictGet(data, "weight", PyFloat(1)),
     created_at |-> fromisoformat(DictItem(data, "created_at")),
     updated_at |-> fromisoformat(DictItem(data, "updated_at"))]

Score_to_dict(e) ==
    DictFrom(<<Item("id", e.id), Item("option_id", e.option_id),
               Item("criteria_id", e.criteria_id), Item("value", e.value),
               Item("notes", e.notes),
               Item("created_at", isoformat(e.created_at)),
               Item("updated_at", isoformat(e.updated_at))>>)

\* the Score the constructor leaves of these arguments
Score_from_dict(data) ==
    Score_new([id |-> DictItem(data, "id"), option_id |-> DictItem(data, "option_id"),
               criteria_id |-> DictItem(data, "criteria_id"), value |-> DictItem(data, "value"),
               notes |-> DictGet(data, "notes", ""),
               created_at |-> fromisoformat(DictItem(data, "created_at")),
               updated_at |-> fromisoformat(DictItem(data, "updated_at"))])

\* the entities the constructors accept, of a bounded family of field values
DictDatetimes == {[second |-> 1, microsecond |-> 0], [second |-> 1, microsecond |-> 5],
                  [second |-> 2, microsecond |-> 0]}
DictNames == {<<"a">>, <<" ", "a">>}
DictDescriptions == {<<>>, <<"x">>}
DictNumbers == {PyInt(2), PyFloat(-1), PyFloat(0), Py("bool", 1)}

DecisionEntities ==
    {e \in [id : DecisionIds, name : DictNames, description : DictDescriptions,
            created_at : DictDatetimes, updated_at : DictDatetimes] :
        Decision_post_init(e) = ""}
OptionEntities ==
    {e \in [id : {"o1"}, decision_id : DecisionIds, name : DictNames,
            description : DictDescriptions,
            created_at : DictDatetimes, updated_at : DictDatetimes] :
        Option_post_init(e) = ""}
CriteriaEntities ==
    {e \in [id : {"c1"}, decision_id : {"d1"}, name : DictNames, description : DictDescriptions,
            weight : DictNumbers, created_at : DictDatetimes, updated_at : DictDatetimes] :
        Criteria_post_init(e) = ""}
ScoreEntities ==
    {Score_new(e) : e \in
        {x \in [id : {"s1"}, option_id : {"o1"}, criteria_id : {"c1"}, value : DictNumbers,
                notes : Notes, created_at : DictDatetimes, updated_at : DictDatetimes] :
            Score_post_init(x) = ""}}

Constructed(class, e) == [Returned(class, "ok") EXCEPT !.value = [e |-> e]]

InitDict ==
    /\ db = Database_init
    /\ decisions = <<>>
    /\ options = <<>>
    /\ criteria = <<>>
    /\ scores = <<>>
    /\ decision = "d1"
    /\ \/ \E e \in DecisionEntities : ret = Constructed("Decision", e)
       \/ \E e \in OptionEntities : ret = Constructed("Option", e)
       \/ \E e \in CriteriaEntities : ret = Constructed("Criteria", e)
       \/ \E e \in ScoreEntities : ret = Constructed("Score", e)

\* e.to_dict()
to_dict ==
    /\ ret.op \in {"Decision", "Option", "Criteria", "Score"}
    /\ ret' = [Returned("to_dict", "ok") EXCEPT !.value =
                  [class |-> ret.op, e |-> ret.value.e,
                   data |-> CASE ret.op = "Decision" -> Decision_to_dict(ret.value.e)
                              [] ret.op = "Option" -> Option_to_dict(ret.value.e)
                              [] ret.op = "Criteria" -> Criteria_to_dict(ret.value.e)
                              [] ret.op = "Score" -> Score_to_dict(ret.value.e)]]
    /\ UNCHANGED <<store, decision, db>>

\* cls.from_dict(data): cls(...) runs __post_init__
from_dict ==
    /\ ret.op = "to_dict"
    /\ LET class == ret.value.class
           data == ret.value.data
           args == CASE class = "Decision" -> Decision_from_dict(data)
                     [] class = "Option" -> Option_from_dict(data)
                     [] class = "Criteria" -> Criteria_from_dict(data)
                     [] class = "Score" -> Score_from_dict(data)
           err == CASE class = "Decision" -> Decision_post_init(args)
                    [] class = "Option" -> Option_post_init(args)
                    [] class = "Criteria" -> Criteria_post_init(args)
                    [] class = "Score" -> Score_post_init(args)
       IN  ret' = IF err # "" THEN Raised("from_dict", err)
                  ELSE [Returned("from_dict", "ok") EXCEPT !.value =
                           [class |-> class, e |-> ret.value.e, back |-> args]]
    /\ UNCHANGED <<store, decision, db>>

NextDict == to_dict \/ from_dict

SpecDict == InitDict /\ [][NextDict]_vars

\* ---- calculate_weighted_scores on every store of a bounded family: each of three
\* options and two criteria belongs to either Decision, and each option carries a
\* score or none for each criteria.  Every such store is one the operations above
\* build (every reference resolves, no pair of a score repeats).
CalcOptions == <<"o1", "o2", "o3">>
CalcCriteria == <<"c1", "c2">>
CalcWeights == {0, 1, 2}
CalcValues == {-1, 2}
CalcPairs == {<<i, j>> : i \in DOMAIN CalcOptions, j \in DOMAIN CalcCriteria}
CalcScoreId == [p \in CalcPairs |->
    <<<<"s11", "s12">>, <<"s21", "s22">>, <<"s31", "s32">>>>[p[1]][p[2]]]

RECURSIVE CalcScores(_, _)
CalcScores(sv, pairs) ==
    IF pairs = {} THEN <<>>
    ELSE LET p == CHOOSE q \in pairs : \A r \in pairs : q[1] < r[1] \/ (q[1] = r[1] /\ q[2] <= r[2])
             rest == CalcScores(sv, pairs \ {p})
         IN  IF sv[p] = {} THEN rest
             ELSE <<[id |-> CalcScoreId[p], option_id |-> CalcOptions[p[1]],
                     criteria_id |-> CalcCriteria[p[2]], value |-> CHOOSE v \in sv[p] : TRUE, notes |-> "",
                     created_at |-> 1, updated_at |-> 1]>> \o rest

InitCalc ==
    \E od \in [DOMAIN CalcOptions -> DecisionIds], cd \in [DOMAIN CalcCriteria -> DecisionIds],
       cw \in [DOMAIN CalcCriteria -> CalcWeights], sv \in [CalcPairs -> Optional(CalcValues)] :
        /\ decisions = <<[id |-> "d1"], [id |-> "d2"]>>
        /\ options = [i \in DOMAIN CalcOptions |-> NewOption(CalcOptions[i], od[i], 1)]
        /\ criteria = [j \in DOMAIN CalcCriteria |->
                          criteria_row(NewCriteria(CalcCriteria[j], cd[j], cw[j], 1))]
        /\ scores = CalcScores(sv, CalcPairs)
        /\ decision = "d1"
        /\ ret = Returned("__init__", "ok")
        /\ db = Database_init

NextCalc == calculate_weighted_scores

SpecCalc == InitCalc /\ [][NextCalc]_vars

\* ======================= properties =======================
Called == ret.op = "calculate_weighted_scores"
DecisionOptions == {o \in Rows(options) : o.decision_id = decision}
DecisionCriteria == {c \in Rows(criteria) : c.decision_id = decision}
HasScore(o, c) == \E s \in Rows(scores) : s.option_id = o /\ s.criteria_id = c
ScoreOrZero(o, c) ==
    IF HasScore(o, c)
    THEN (CHOOSE s \in Rows(scores) : s.option_id = o /\ s.criteria_id = c).value
    ELSE 0

RECURSIVE SumOverCriteria(_, _)
SumOverCriteria(o, cs) ==
    IF cs = {} THEN 0
    ELSE LET c == CHOOSE x \in cs : TRUE
         IN  ScoreOrZero(o, c.id) * c.weight + SumOverCriteria(o, cs \ {c})

\* C1: calculate_weighted_scores reports, for every Option o of the Service's
\* Decision, the sum over the Decision's Criteria c of (o's score for c, or 0 when
\* there is none) times c's weight, not divided by the total weight.
C1_WeightedSum ==
    Called =>
        /\ \A o \in DecisionOptions : \E i \in DOMAIN ret.value : ret.value[i].option = o
        /\ \A i \in DOMAIN ret.value :
              ret.value[i].weighted_score = SumOverCriteria(ret.value[i].option.id, DecisionCriteria)

\* an option with a score for one criteria and none for another, the two weights
\* different and not zero, and a result that is not zero
C1_Witness ==
    /\ Called
    /\ \E i \in DOMAIN ret.value : \E c1, c2 \in DecisionCriteria :
          /\ c1.weight # c2.weight /\ c1.weight > 0 /\ c2.weight > 0
          /\ HasScore(ret.value[i].option.id, c1.id)
          /\ ~HasScore(ret.value[i].option.id, c2.id)
          /\ ret.value[i].weighted_score # 0

\* C2: the list calculate_weighted_scores returns is in descending order of
\* weighted_score: no entry is smaller than the entry after it.
C2_Descending ==
    Called =>
        \A i \in DOMAIN ret.value :
            i < Len(ret.value) => ret.value[i].weighted_score >= ret.value[i + 1].weighted_score

\* three entries of three different scores, returned in the reverse of the listing order
C2_Witness ==
    /\ Called
    /\ Len(ret.value) = 3
    /\ ret.value[1].weighted_score > ret.value[2].weighted_score
    /\ ret.value[2].weighted_score > ret.value[3].weighted_score
    /\ ret.value[1].option = options[3]
    /\ ret.value[3].option = options[1]

ZeroScore(o, c) == score_row(NewScore("s0", o, c, 0, "", 1))

\* C3: where an Option o of the Decision has no Score for a Criteria c of the
\* Decision, the call raises nothing and returns what it returns on the store that
\* also holds a Score of value 0 for (o, c).
C3_MissingIsZero ==
    Called =>
        /\ ret.out = "ok"
        /\ \A o \in DecisionOptions, c \in DecisionCriteria :
              ~HasScore(o.id, c.id) =>
                  ret.value = WeightedScores(decision, options, criteria,
                                             Append(scores, ZeroScore(o.id, c.id)))

\* an option that has a score for one criteria of the Decision and none for another
\* whose weight is not zero
C3_Witness ==
    /\ Called
    /\ \E o \in DecisionOptions, c1, c2 \in DecisionCriteria :
          /\ HasScore(o.id, c1.id)
          /\ ~HasScore(o.id, c2.id)
          /\ c2.weight > 0

\* C4: when the Service's Decision has no Options the call returns the empty list,
\* whatever Criteria and Scores are stored.
C4_NoOptionsEmpty ==
    (Called /\ DecisionOptions = {}) => ret.value = <<>>

\* no option of the Decision, while it has criteria and the store holds scores
C4_Witness ==
    /\ Called
    /\ DecisionOptions = {}
    /\ DecisionCriteria # {}
    /\ options # <<>>
    /\ \E s \in Rows(scores) : s.criteria_id \in {c.id : c \in DecisionCriteria}

\* C5: when the Service's Decision has an Option and no Criteria, every entry
\* returned has weighted_score 0, whatever Scores its Options have.
C5_NoCriteriaZero ==
    (Called /\ DecisionOptions # {} /\ DecisionCriteria = {}) =>
        /\ ret.value # <<>>
        /\ \A i \in DOMAIN ret.value : ret.value[i].weighted_score = 0

\* options of the Decision with scores, for criteria of positive weight that are all
\* another Decision's
C5_Witness ==
    /\ Called
    /\ DecisionCriteria = {}
    /\ \E o \in DecisionOptions : \E s \in Rows(scores) : \E c \in Rows(criteria) :
          s.option_id = o.id /\ s.criteria_id = c.id /\ s.value # 0 /\ c.weight > 0

\* C6: in every reachable state the store holds at most one Score for each
\* (option_id, criteria_id) pair.
C6_UniquePair ==
    \A i, j \in DOMAIN scores :
        (scores[i].option_id = scores[j].option_id /\ scores[i].criteria_id = scores[j].criteria_id)
            => i = j

\* two scores are stored and a create for a pair that has one was turned down
C6_Witness ==
    /\ Len(scores) = 2
    /\ ret.out = UniqueScoresPair

\* C7: in every reachable state every Option and Criteria references a stored
\* Decision and every Score references a stored Option and a stored Criteria.
C7_NoDangling ==
    /\ \A o \in Rows(options) : o.decision_id \in Ids(decisions)
    /\ \A c \in Rows(criteria) : c.decision_id \in Ids(decisions)
    /\ \A s \in Rows(scores) : s.option_id \in Ids(options) /\ s.criteria_id \in Ids(criteria)

\* a Decision was deleted with an option of its own, and the rows of the other
\* Decision, a score among them, remain
C7_Witness ==
    /\ ret.op = "DecisionRepository.delete"
    /\ ret.out = "True"
    /\ ret.removed \cap OptionIds # {}
    /\ Len(decisions) = 1
    /\ options # <<>>
    /\ criteria # <<>>
    /\ scores # <<>>

\* C8: deleting a Decision removes its Options, its Criteria and every Score that
\* references one of them: get_by_id finds none of them afterwards.
C8_DecisionDeleteCascades ==
    [][\A d \in DecisionIds :
          (ret'.op = "DecisionRepository.delete" /\ DecisionRepository_delete(d)) =>
              LET os == {o.id : o \in {r \in Rows(options) : r.decision_id = d}}
                  cs == {c.id : c \in {r \in Rows(criteria) : r.decision_id = d}}
              IN  /\ \A o \in os : get_by_id(options', o) = {}
                  /\ \A c \in cs : get_by_id(criteria', c) = {}
                  /\ \A s \in Rows(scores) :
                        (s.option_id \in os \/ s.criteria_id \in cs) => get_by_id(scores', s.id) = {}
      ]_vars

\* the delete of a Decision took an option, a criteria and a score with it, and an
\* option of the other Decision stays
C8_Witness ==
    /\ ret.op = "DecisionRepository.delete"
    /\ ret.out = "True"
    /\ ret.removed \cap OptionIds # {}
    /\ ret.removed \cap CriteriaIds # {}
    /\ ret.removed \cap ScoreIds # {}
    /\ options # <<>>

\* C9: deleting an Option, or a Criteria, removes every Score that references it:
\* get_by_id of each such Score finds nothing afterwards.
C9_ChildDeleteCascades ==
    [][/\ \A id \in OptionIds :
            (ret'.op = "delete_option" /\ delete_option(id)) =>
                \A s \in Rows(scores) : s.option_id = id => get_by_id(scores', s.id) = {}
       /\ \A id \in CriteriaIds :
            (ret'.op = "delete_criteria" /\ delete_criteria(id)) =>
                \A s \in Rows(scores) : s.criteria_id = id => get_by_id(scores', s.id) = {}
      ]_vars

\* the delete of a Criteria took the scores of two options with it
C9_Witness ==
    /\ ret.op = "delete_criteria"
    /\ ret.out = "True"
    /\ ret.removed \cap ScoreIds = ScoreIds
    /\ Len(options) = 2

ScoreRow(id, o, c, v, n) == score_row(NewScore(id, o, c, v, n, 1))

\* C10: in every reachable state, creating a Score (any id, value and notes) for a
\* pair that has a stored Score fails with the uniqueness error and leaves the
\* stored scores, their ids, values and notes, as they were.
C10_DuplicateScoreFails ==
    \A id \in ScoreIds, o \in OptionIds, c \in CriteriaIds, v \in Values, n \in Notes :
        HasScore(o, c) =>
            /\ ScoreInsert(ScoreRow(id, o, c, v, n)).err = UniqueScoresPair
            /\ ScoreInsert(ScoreRow(id, o, c, v, n)).scores = scores

\* the Service's create_score was turned down for a pair that has a score
C10_Witness ==
    /\ ret = Raised("create_score", UniqueScoresPair)
    /\ \E s \in Rows(scores) : s.notes = "n"

IntegrityErrors == {UniqueScoresPair, UniqueId, ForeignKeyFailed}
MissingDecisions == (DecisionIds \cup {"d0"}) \ Ids(decisions)

\* C11: in every reachable state, creating an Option or a Criteria whose
\* decision_id names no stored Decision, or a Score whose option_id or criteria_id
\* names no stored Option or Criteria, raises an IntegrityError and leaves the
\* table as it was; the error is the foreign-key one whenever the entity's id is
\* new, as a generated id is.
C11_ForeignKeyFails ==
    /\ \A id \in OptionIds, d \in MissingDecisions :
          LET done == ChildInsert(options, NewOption(id, d, 1))
          IN  /\ done.err \in IntegrityErrors
              /\ id \notin Ids(options) => done.err = ForeignKeyFailed
              /\ done.table = options
    /\ \A id \in CriteriaIds, d \in MissingDecisions, w \in Weights :
          LET done == ChildInsert(criteria, criteria_row(NewCriteria(id, d, w, 1)))
          IN  /\ done.err \in IntegrityErrors
              /\ id \notin Ids(criteria) => done.err = ForeignKeyFailed
              /\ done.table = criteria
    /\ \A id \in ScoreIds, o \in OptionIds \cup {"o0"}, c \in CriteriaIds \cup {"c0"}, v \in Values :
          (o \notin Ids(options) \/ c \notin Ids(criteria)) =>
              LET done == ScoreInsert(ScoreRow(id, o, c, v, ""))
              IN  /\ done.err \in IntegrityErrors
                  /\ id \notin Ids(scores) => done.err = ForeignKeyFailed
                  /\ done.scores = scores

\* the Service's create_score was turned down for an option that is not stored,
\* while the criteria it names is, with a score of another option
C11_Witness ==
    /\ ret = Raised("create_score", ForeignKeyFailed)
    /\ Len(options) = 1
    /\ criteria # <<>>
    /\ scores # <<>>

IsError(out) == out \notin {"ok", "True", "False"}
OptionCreates == {"create_option", "OptionRepository.create"}
CriteriaCreates == {"create_criteria", "CriteriaRepository.create"}
ScoreCreates == {"create_score", "ScoreRepository.create"}
RepositoryCreates ==
    {"DecisionRepository.create", "OptionRepository.create", "CriteriaRepository.create",
     "ScoreRepository.create"}

\* C12: a call that raises leaves every table exactly as it was before the call,
\* and what a repository's create raises is the IntegrityError of the INSERT; a
\* create that returns has its row in the table afterwards, the table otherwise as
\* it was.
C12_Atomic ==
    [][/\ IsError(ret'.out) => store' = store
       /\ (IsError(ret'.out) /\ ret'.op \in RepositoryCreates) => ret'.out \in IntegrityErrors
       /\ (~IsError(ret'.out) /\ ret'.op \in OptionCreates) =>
              options' = Append(options, ret'.value)
       /\ (~IsError(ret'.out) /\ ret'.op \in CriteriaCreates) =>
              criteria' = Append(criteria, criteria_row(ret'.value))
       /\ (~IsError(ret'.out) /\ ret'.op \in ScoreCreates) =>
              scores' = Append(scores, score_row(ret'.value))
      ]_vars

\* a repository's create failed on the foreign key of its INSERT, in a store that
\* holds rows of every table
C12_Witness ==
    /\ ret = Raised("OptionRepository.create", ForeignKeyFailed)
    /\ Len(decisions) = 1
    /\ options # <<>>
    /\ criteria # <<>>
    /\ scores # <<>>

\* C13: in every state the Service's operations reach, every stored Criteria has a
\* weight of 0 or more.
C13_WeightNonNegative == \A c \in Rows(criteria) : c.weight >= 0

\* C14: in every state the Service's operations reach, no stored Option and no
\* stored Criteria has a name that is empty or only whitespace.
C14_NamesNotBlank == \A r \in Rows(options) \cup Rows(criteria) : ~Blank(r.name)

\* C15: update_option, update_criteria and update_score called with an id that no
\* stored row has raise the not-found ValueError, return nothing of a repository's
\* update, and leave every table as it was.
C15_UpdateNotFound ==
    [][/\ ret'.op = "update_option" =>
            \A id \in OptionIds \ Ids(options), n \in Optional(SpecArgs.new_names),
               d \in Optional(SpecArgs.new_descriptions), now \in Clock :
                update_option(id, n, d, now) =>
                    (ret' = Raised("update_option", NotFound) /\ store' = store)
       /\ ret'.op = "update_criteria" =>
            \A id \in CriteriaIds \ Ids(criteria), n \in Optional(SpecArgs.new_names),
               d \in Optional(SpecArgs.new_descriptions), w \in Optional(SpecArgs.new_weights),
               now \in Clock :
                update_criteria(id, n, d, w, now) =>
                    (ret' = Raised("update_criteria", NotFound) /\ store' = store)
       /\ ret'.op = "update_score" =>
            \A id \in ScoreIds \ Ids(scores), v \in Optional(SpecArgs.new_values),
               n \in Optional(SpecArgs.new_notes), now \in Clock :
                update_score(id, v, n, now) =>
                    (ret' = Raised("update_score", NotFound) /\ store' = store)
      ]_vars

\* update_score was called with the id of no score while another score is stored
C15_Witness ==
    /\ ret = Raised("update_score", NotFound)
    /\ Len(scores) = 1

Supplied(arg, old) == IF arg = {} THEN old ELSE CHOOSE x \in arg : TRUE
\* the table with the row of that id replaced, every other row and the order kept
WithRow(table, id, row) == [i \in DOMAIN table |-> IF table[i].id = id THEN row ELSE table[i]]

\* C16: a Service update that returns leaves, in the row of that id, the value
\* supplied in each field that was supplied and the clock's reading in updated_at;
\* the fields not supplied, the id, the parent ids and created_at are the row's
\* previous ones, and no other row and no other table changes.  (The call is one
\* on the id of the entity returned, at the clock reading the entity carries.)
C16_PartialUpdate ==
    [][/\ (ret'.op = "update_option" /\ ret'.out = "ok") =>
            \A r \in get_by_id(options, ret'.value.id), n \in Optional(ServiceNewNames),
               d \in Optional(ServiceArgs.new_descriptions), now \in {ret'.value.updated_at} :
                (Supplied(n, r.name) = ret'.value.name /\ update_option(r.id, n, d, now)) =>
                    /\ options' = WithRow(options, r.id,
                           [id |-> r.id, decision_id |-> r.decision_id,
                            created_at |-> r.created_at,
                            name |-> Supplied(n, r.name),
                            description |-> Supplied(d, r.description),
                            updated_at |-> now])
                    /\ UNCHANGED <<decisions, criteria, scores>>
       /\ (ret'.op = "update_criteria" /\ ret'.out = "ok") =>
            \A r \in get_by_id(criteria, ret'.value.id), n \in Optional(ServiceNewNames),
               d \in Optional(ServiceArgs.new_descriptions), w \in Optional(ServiceNewWeights),
               now \in {ret'.value.updated_at} :
                (Supplied(n, r.name) = ret'.value.name
                    /\ update_criteria(r.id, n, d, w, now)) =>
                    /\ criteria' = WithRow(criteria, r.id,
                           [id |-> r.id, decision_id |-> r.decision_id,
                            created_at |-> r.created_at,
                            name |-> Supplied(n, r.name),
                            description |-> Supplied(d, r.description),
                            weight |-> IF w = {} THEN r.weight ELSE (CHOOSE x \in w : TRUE).v,
                            updated_at |-> now])
                    /\ UNCHANGED <<decisions, options, scores>>
       /\ (ret'.op = "update_score" /\ ret'.out = "ok") =>
            \A r \in get_by_id(scores, ret'.value.id), v \in Optional(ServiceNewValues),
               n \in Optional(ServiceArgs.new_notes), now \in {ret'.value.updated_at} :
                update_score(r.id, v, n, now) =>
                    /\ scores' = WithRow(scores, r.id,
                           [id |-> r.id, option_id |-> r.option_id,
                            criteria_id |-> r.criteria_id, created_at |-> r.created_at,
                            value |-> IF v = {} THEN r.value ELSE (CHOOSE x \in v : TRUE).v,
                            notes |-> Supplied(n, r.notes), updated_at |-> now])
                    /\ UNCHANGED <<decisions, options, criteria>>
      ]_vars

\* update_criteria returned after a call that did not supply the weight (the
\* entity's weight is the float read from the row), on a criteria whose name and
\* description are not those it was created with, at a later reading of the clock
C16_Witness ==
    /\ ret.op = "update_criteria"
    /\ ret.out = "ok"
    /\ ret.value.weight = PyFloat(2)
    /\ \E c \in Rows(criteria) :
          /\ c.name = <<"b">>
          /\ c.description = <<"x">>
          /\ c.weight = 2
          /\ c.created_at = 1
          /\ c.updated_at = 2

\* the validation errors: the ValueErrors of the Service's checks and of the
\* constructors
ValidationErrors ==
    {"ValueError: Option name cannot be empty",
     "ValueError: Option must be associated with a decision",
     "ValueError: Criteria name cannot be empty",
     "ValueError: Criteria must be associated with a decision",
     "ValueError: Weight must be a numeric value",
     "ValueError: Weight cannot be negative",
     "ValueError: Option ID cannot be empty",
     "ValueError: Criteria ID cannot be empty",
     "ValueError: Score value must be numeric",
     "ValueError: Score must be associated with an option",
     "ValueError: Score must be associated with a criteria",
     "ValueError: Score value must be a numeric value"}
\* a value that is neither an integer nor a floating-point number nor a boolean
NotANumber(x) == x.t \notin {"int", "float", "bool"}

\* C17: create_option, create_criteria and create_score given an invalid input (a
\* name or an id that is empty or blank, a weight that is negative or no number, a
\* value that is no number) raise a validation error and leave every table as it
\* was.
C17_InvalidCreateRejected ==
    [][/\ ret'.op = "create_option" =>
            \A id \in ServiceArgs.option_ids, n \in ServiceNames,
               d \in ServiceArgs.descriptions, now \in ServiceClock :
                (Blank(n) /\ create_option(id, n, d, now)) =>
                    (ret'.out \in ValidationErrors /\ store' = store)
       /\ ret'.op = "create_criteria" =>
            \A id \in ServiceArgs.criteria_ids, n \in ServiceNames,
               d \in ServiceArgs.descriptions, w \in ServiceWeights, now \in ServiceClock :
                ((Blank(n) \/ NotANumber(w) \/ w.v < 0) /\ create_criteria(id, n, d, w, now)) =>
                    (ret'.out \in ValidationErrors /\ store' = store)
       /\ ret'.op = "create_score" =>
            \A id \in ServiceArgs.score_ids,
               o \in ServiceArgs.option_ids \cup ServiceArgs.blank_ids,
               c \in ServiceArgs.criteria_ids \cup ServiceArgs.blank_ids,
               v \in ServiceValues, n \in ServiceArgs.notes, now \in ServiceClock :
                ((Blank(Text(o)) \/ Blank(Text(c)) \/ NotANumber(v))
                    /\ create_score(id, o, c, v, n, now)) =>
                    (ret'.out \in ValidationErrors /\ store' = store)
      ]_vars

\* neither an integer nor a floating-point number: a boolean is neither
NotIntOrFloat(x) == x.t \notin {"int", "float"}

\* C18: a value that is neither an integer nor a floating-point number (a boolean
\* and a list among them) is turned down with a validation error, by the Score
\* constructor given it and by create_score called with it.
C18_NonNumericValueRejected ==
    [][ret'.op = "create_score" =>
            \A id \in ServiceArgs.score_ids, o \in ServiceArgs.option_ids,
               c \in ServiceArgs.criteria_ids, v \in ServiceValues,
               n \in ServiceArgs.notes, now \in ServiceClock :
                (NotIntOrFloat(v) /\ create_score(id, o, c, v, n, now)) =>
                    /\ Score_post_init([NewScore(id, o, c, 0, n, now) EXCEPT !.value = v])
                           \in ValidationErrors
                    /\ ret'.out \in ValidationErrors
      ]_vars

\* C19: the weight of every Criteria and the value of every Score a create or an
\* update of the Service returns is a floating-point number.
C19_AlwaysFloat ==
    ret.out = "ok" =>
        /\ ret.op \in {"create_criteria", "update_criteria"} => ret.value.weight.t = "float"
        /\ ret.op \in {"create_score", "update_score"} => ret.value.value.t = "float"

\* C20: create_score for a stored Option and a stored Criteria that have no Score
\* yet returns the Score and stores its row, whichever Decisions the Option and the
\* Criteria belong to.
C20_CrossDecisionScore ==
    [][ret'.op = "create_score" =>
            \A id \in NewId(ScoreIds, scores), o \in Ids(options), c \in Ids(criteria),
               v \in SpecArgs.values, n \in SpecArgs.notes, now \in Clock :
                (~HasScore(o, c) /\ create_score(id, o, c, v, n, now)) =>
                    /\ ret'.out = "ok"
                    /\ scores' = Append(scores, score_row(NewScore(id, o, c, v.v, n, now)))
      ]_vars

\* create_score returned a Score of an Option of the other Decision for a Criteria
\* of the Service's Decision
C20_Witness ==
    /\ ret.op = "create_score"
    /\ ret.out = "ok"
    /\ \E s \in Rows(scores), o \in Rows(options), c \in Rows(criteria) :
          /\ s.id = ret.value.id
          /\ o.id = s.option_id /\ c.id = s.criteria_id
          /\ o.decision_id # decision
          /\ c.decision_id = decision
DecisionDeletes == {"DecisionRepository.delete"}

\* C21: a delete returns True exactly when a row of that id was stored before the
\* call; after the call get_by_id finds no row of that id, and the same delete
\* called again returns False and removes nothing.
C21_DeleteReturnsExisted ==
    [][/\ ret'.op \in DecisionDeletes =>
            \A d \in DecisionIds :
                DecisionRepository_delete(d) =>
                    /\ ret'.out = BoolOut(get_by_id(decisions, d) # {})
                    /\ get_by_id(decisions', d) = {}
                    /\ Deleted(ret'.op, {d} \cap Ids(decisions'), {}).out = "False"
       /\ ret'.op = "delete_option" =>
            \A id \in OptionIds :
                delete_option(id) =>
                    /\ ret'.out = BoolOut(get_by_id(options, id) # {})
                    /\ get_by_id(options', id) = {}
                    /\ Deleted(ret'.op, {id} \cap Ids(options'), {}).out = "False"
       /\ ret'.op = "delete_criteria" =>
            \A id \in CriteriaIds :
                delete_criteria(id) =>
                    /\ ret'.out = BoolOut(get_by_id(criteria, id) # {})
                    /\ get_by_id(criteria', id) = {}
                    /\ Deleted(ret'.op, {id} \cap Ids(criteria'), {}).out = "False"
       /\ ret'.op = "delete_score" =>
            \A id \in ScoreIds :
                delete_score(id) =>
                    /\ ret'.out = BoolOut(get_by_id(scores, id) # {})
                    /\ get_by_id(scores', id) = {}
                    /\ Deleted(ret'.op, {id} \cap Ids(scores'), {}).out = "False"
      ]_vars

\* delete_score returned False for an id no score has, in a store that holds
\* another score and keeps it
C21_Witness ==
    /\ ret.op = "delete_score"
    /\ ret.out = "False"
    /\ ret.removed = {}
    /\ Len(scores) = 1
\* C22: over any sequence of operations and close calls on one Database handle,
\* the handle has opened exactly one connection, and has closed it at most once.
C22_OneConnection == db.opened = 1 /\ db.closed <= 1
\* C23: when the INSERT of a Service create fails, with the foreign-key or a
\* uniqueness error, the Service's call raises that same error and the store is
\* what the one INSERT left, unchanged: the Service neither runs the statement
\* again, nor raises another error in its place, nor returns as if it had succeeded.
C23_ErrorsPropagate ==
    [][/\ ret'.op = "create_option" =>
            \A id \in NewId(OptionIds, options), now \in Clock :
                create_option(id, Name, Description, now) =>
                    LET done == ChildInsert(options, NewOption(id, decision, now))
                    IN  done.err # "" =>
                            (ret' = Raised("create_option", done.err) /\ store' = store)
       /\ ret'.op = "create_criteria" =>
            \A id \in NewId(CriteriaIds, criteria), w \in SpecArgs.weights, now \in Clock :
                create_criteria(id, Name, Description, w, now) =>
                    LET done == ChildInsert(criteria,
                                    criteria_row(NewCriteria(id, decision, w.v, now)))
                    IN  done.err # "" =>
                            (ret' = Raised("create_criteria", done.err) /\ store' = store)
       /\ ret'.op = "create_score" =>
            \A id \in NewId(ScoreIds, scores), o \in OptionIds, c \in CriteriaIds,
               v \in SpecArgs.values, n \in SpecArgs.notes, now \in Clock :
                create_score(id, o, c, v, n, now) =>
                    LET done == ScoreInsert(score_row(NewScore(id, o, c, v.v, n, now)))
                    IN  done.err # "" =>
                            (ret' = Raised("create_score", done.err) /\ store' = store)
      ]_vars

\* create_option raised the foreign-key error of its INSERT: the Service's
\* Decision is not stored, while the other Decision is, with an option
C23_Witness ==
    /\ ret = Raised("create_option", ForeignKeyFailed)
    /\ Len(decisions) = 1
    /\ options # <<>>
\* C24: DecisionService constructed with decision=None raises and yields no
\* Service (the Service the program holds stays the one it had); it raises
\* ValueError "Decision cannot be None" when the call passes the parameters
\* __init__ declares.
C24_NoneDecisionRejected ==
    [][ret'.op = "DecisionService.__init__" =>
            \A database \in Optional(Databases), o \in OptionRepositories,
               c \in CriteriaRepositories, s \in ScoreRepositories :
                DecisionService_init({}, database, o, c, s) =>
                    /\ ret'.out \in {DecisionIsNone, UnexpectedKeyword}
                    /\ database = {} => ret'.out = DecisionIsNone
                    /\ ret'.value = NoValue
                    /\ decision' = decision
      ]_vars

\* the construction with decision=None was turned down in a program that holds a
\* Service of the other Decision, constructed before
C24_Witness ==
    /\ ret = Raised("DecisionService.__init__", DecisionIsNone)
    /\ decision = "d2"

\* C25: DecisionService constructed with a Decision, a database and the three
\* repositories returns a Service whose decision, option_repository,
\* criteria_repository and score_repository are the objects passed.
C25_ConstructedWithDatabase ==
    [][ret'.op = "DecisionService.__init__" =>
            \A d \in DecisionIds, database \in Databases, o \in OptionRepositories,
               c \in CriteriaRepositories, s \in ScoreRepositories :
                DecisionService_init({d}, {database}, o, c, s) =>
                    /\ ret'.out = "ok"
                    /\ ret'.value = [decision |-> {d}, option_repository |-> o,
                                     criteria_repository |-> c, score_repository |-> s]
      ]_vars
\* the list holds each of the rows once and nothing else
Exactly(list, rows) ==
    Len(list) = Cardinality(rows) /\ {list[i] : i \in DOMAIN list} = rows
Ascending(list) ==
    \A i, j \in DOMAIN list : i < j => list[i].created_at <= list[j].created_at
Descending(list) ==
    \A i, j \in DOMAIN list : i < j => list[i].created_at >= list[j].created_at
CriteriaRows(entities) == [i \in DOMAIN entities |-> criteria_row(entities[i])]
ScoreRows(entities) == [i \in DOMAIN entities |-> score_row(entities[i])]

\* C26: get_by_decision_id of the Option and Criteria repositories, and
\* get_by_option_id and get_by_criteria_id of the Score repository, return the
\* entities of exactly the stored rows of that parent, none twice, in ascending
\* order of created_at; get_all of the three repositories returns the entities of
\* exactly the stored rows of the table in descending order of created_at.
C26_ListsOrdered ==
    [][/\ ret'.op = "OptionRepository.get_by_decision_id" =>
            \A d \in DecisionIds :
                OptionRepository_get_by_decision_id(d) =>
                    /\ Exactly(ret'.value, {r \in Rows(options) : r.decision_id = d})
                    /\ Ascending(ret'.value)
       /\ ret'.op = "CriteriaRepository.get_by_decision_id" =>
            \A d \in DecisionIds :
                CriteriaRepository_get_by_decision_id(d) =>
                    /\ Exactly(CriteriaRows(ret'.value),
                               {r \in Rows(criteria) : r.decision_id = d})
                    /\ Ascending(ret'.value)
       /\ ret'.op = "ScoreRepository.get_by_option_id" =>
            \A o \in OptionIds :
                ScoreRepository_get_by_option_id(o) =>
                    /\ Exactly(ScoreRows(ret'.value),
                               {r \in Rows(scores) : r.option_id = o})
                    /\ Ascending(ret'.value)
       /\ ret'.op = "ScoreRepository.get_by_criteria_id" =>
            \A c \in Ids(criteria) :
                ScoreRepository_get_by_criteria_id(c) =>
                    /\ Exactly(ScoreRows(ret'.value),
                               {r \in Rows(scores) : r.criteria_id = c})
                    /\ Ascending(ret'.value)
       /\ ret'.op = "OptionRepository.get_all" =>
            (Exactly(ret'.value, Rows(options)) /\ Descending(ret'.value))
       /\ ret'.op = "CriteriaRepository.get_all" =>
            (Exactly(CriteriaRows(ret'.value), Rows(criteria)) /\ Descending(ret'.value))
       /\ ret'.op = "ScoreRepository.get_all" =>
            (Exactly(ScoreRows(ret'.value), Rows(scores)) /\ Descending(ret'.value))
      ]_vars

\* the options of a Decision were listed, the one stored last first: it was
\* constructed before the other
C26_Witness ==
    /\ ret.op = "OptionRepository.get_by_decision_id"
    /\ ret.value = <<options[2], options[1]>>
    /\ options[2].created_at < options[1].created_at

\* C27: for every Decision, Option, Criteria and Score entity e, from_dict of
\* e.to_dict() raises nothing and returns an entity whose every field, created_at
\* and updated_at included, equals the field of e.
C27_DictRoundTrip ==
    ret.op = "from_dict" => (ret.out = "ok" /\ ret.value.back = ret.value.e)

\* a Criteria was rebuilt whose timestamps carry a microsecond in one and none in
\* the other, with a description and a name that begins with a space
C27_Witness ==
    /\ ret.op = "from_dict"
    /\ ret.out = "ok"
    /\ ret.value.class = "Criteria"
    /\ ret.value.back.created_at.microsecond # 0
    /\ ret.value.back.updated_at.microsecond = 0
    /\ ret.value.back.description # <<>>
    /\ Head(ret.value.back.name) = " "

\* the options of the entries returned, in the order returned
ResultOptions == [i \in DOMAIN ret.value |-> ret.value[i].option]

\* C28: the list calculate_weighted_scores returns has one entry for each Option
\* get_by_decision_id lists for the Service's Decision, exactly one, and no
\* entry for an Option of another Decision: its options are a permutation of
\* that listing.
C28_OneEntryPerOption ==
    Called =>
        LET listing == get_by_decision_id(options, decision)
        IN  /\ Len(ResultOptions) = Len(listing)
            /\ \A k \in DOMAIN listing :
                  Cardinality({i \in DOMAIN ResultOptions : ResultOptions[i] = listing[k]}) = 1
            /\ \A i \in DOMAIN ResultOptions : ResultOptions[i].decision_id = decision

\* two options of the Decision are returned, one of them without any score, not
\* in the order of the listing, while the third option, of another Decision, has
\* a score for a criteria of the Service's Decision
C28_Witness ==
    /\ Called
    /\ Len(ret.value) = 2
    /\ ResultOptions # get_by_decision_id(options, decision)
    /\ \E i \in DOMAIN ret.value : get_by_option_id(scores, ret.value[i].option.id) = <<>>
    /\ \E o \in Rows(options), c \in DecisionCriteria :
          o.decision_id # decision /\ HasScore(o.id, c.id)

\* the place of an option in the listing of the Decision's options
ListingPlace(o) ==
    CHOOSE k \in DOMAIN get_by_decision_id(options, decision) :
        get_by_decision_id(options, decision)[k] = o

\* C29: two entries of equal weighted_score are returned in the order their
\* options have in get_by_decision_id's listing for the Decision.
C29_StableTies ==
    Called =>
        \A i, j \in DOMAIN ret.value :
            (i < j /\ ret.value[i].weighted_score = ret.value[j].weighted_score) =>
                ListingPlace(ret.value[i].option) < ListingPlace(ret.value[j].option)

\* the first two options of the listing tie on a score that is not zero and come
\* back in their order, after the third option, whose score is higher
C29_Witness ==
    /\ Called
    /\ Len(ret.value) = 3
    /\ ret.value[1].option = options[3]
    /\ ret.value[2].option = options[1]
    /\ ret.value[3].option = options[2]
    /\ ret.value[2].weighted_score = ret.value[3].weighted_score
    /\ ret.value[2].weighted_score # 0
    /\ ret.value[1].weighted_score > ret.value[2].weighted_score

\* a Score of an Option of the Service's Decision for a Criteria of another one
CrossDecisionScores ==
    {s \in Rows(scores) :
        /\ \E o \in DecisionOptions : o.id = s.option_id
        /\ \E c \in Rows(criteria) : c.id = s.criteria_id /\ c.decision_id # decision}

\* C30: for every stored Score that links an Option of the Service's Decision to
\* a Criteria of a different Decision, calculate_weighted_scores returns what it
\* returns on the store without that Score.
C30_CrossScoreIgnored ==
    Called =>
        \A s \in CrossDecisionScores :
            ret.value = WeightedScores(decision, options, criteria, DeleteById(scores, s.id))

\* an option of the Decision has a score that counts, for a criteria of the
\* Decision, and a score that is not zero for a criteria of positive weight of
\* another Decision
C30_Witness ==
    /\ Called
    /\ \E s \in CrossDecisionScores, c \in Rows(criteria), i \in DOMAIN ret.value :
          /\ c.id = s.criteria_id /\ c.weight > 0 /\ s.value # 0
          /\ ret.value[i].option.id = s.option_id
          /\ ret.value[i].weighted_score # 0
====
